---- MODULE Spec2Model ----
(***************************************************************************)
(* Model of the apertodns CLI's detect / compare / update core:            *)
(*   utils.js  : getCurrentIP, getCurrentIPv6, loadLastIP, saveCurrentIP   *)
(*   index.js  : runUpdate (single-shot), runDaemonMode (repeating timer)  *)
(* Texts (provider responses, file contents, addresses) are sequences of   *)
(* one-character strings.                                                  *)
(***************************************************************************)
EXTENDS Integers, Sequences, FiniteSets, Bags, TLC

\* ------------------------------------------------------------------ bounds
\* number of daemon ticks that may be in flight at once in the model
MaxTicks == 2

\* ------------------------------------------------------------- text values
\* JavaScript null (a value no text is equal to)
NULL == <<"null">>
\* "the file does not exist" (fs.existsSync is false)
NoFile == <<"nofile">>

Digits == {"0", "1", "2", "3", "4", "5", "6", "7", "8", "9"}
WhiteSpace == {" ", "\n", "\t", "\r"}

IP_A == <<"1", ".", "1", ".", "1", ".", "1">>
IP_B == <<"2", ".", "2", ".", "2", ".", "2">>
V6_A == <<"a", ":", ":", "1">>
V6_B == <<"b", ":", ":", "2">>

\* what getCurrentIP(...) can resolve to in the tick model
IPs == {IP_A, IP_B}
IP6s == {V6_A, V6_B}

\* String.prototype.trim
RECURSIVE TrimLeft(_)
TrimLeft(t) ==
  IF t # << >> /\ Head(t) \in WhiteSpace THEN TrimLeft(Tail(t)) ELSE t

RECURSIVE TrimRight(_)
TrimRight(t) ==
  IF t # << >> /\ t[Len(t)] \in WhiteSpace
  THEN TrimRight(SubSeq(t, 1, Len(t) - 1)) ELSE t

Trim(t) == TrimRight(TrimLeft(t))

\* number of consecutive digits of t starting at position i
RECURSIVE DigitsRun(_, _)
DigitsRun(t, i) ==
  IF i <= Len(t) /\ t[i] \in Digits THEN 1 + DigitsRun(t, i + 1) ELSE 0

\* groups g..4 of /^(\d{1,3}\.){3}\d{1,3}$/ matched from position i
RECURSIVE MatchGroups(_, _, _)
MatchGroups(t, i, g) ==
  LET n == DigitsRun(t, i)
      j == i + n
  IN  /\ n \in 1..3
      /\ IF g = 4
         THEN j = Len(t) + 1
         ELSE /\ j <= Len(t)
              /\ t[j] = "."
              /\ MatchGroups(t, j + 1, g + 1)

\* ipv4Regex.test(ip)
ipv4Regex(t) == MatchGroups(t, 1, 1)

\* ip.includes(':')
includesColon(t) == \E i \in 1..Len(t) : t[i] = ":"

\* ------------------------------------------------------------- state store
\* a path that exists and cannot be read as a file (a directory, or no
\* permission): readFileSync throws
Unreadable == <<"unreadable">>

\* loadLastIP: trimmed file content, or null when the file does not exist
\* or reading it throws
loadLastIP(file) ==
  IF file = NoFile \/ file = Unreadable THEN NULL ELSE Trim(file)

\* saveCurrentIP: fs.writeFileSync(ipPath, ip) inside try/catch; a write
\* that throws (I/O error, or data that is not a string) leaves the file
saveCurrentIP_noWrite(file, ip, writeOk) == file

saveCurrentIP(file, ip, writeOk) ==
  IF writeOk /\ ip # NULL THEN ip ELSE file

\* loadLastIPv6 and saveCurrentIPv6: the same two bodies over ipv6Path
loadLastIPv6(file) ==
  IF file = NoFile \/ file = Unreadable THEN NULL ELSE Trim(file)

saveCurrentIPv6(file, ip, writeOk) ==
  IF writeOk /\ ip # NULL THEN ip ELSE file

\* saveCurrentIP was called and its write threw (the catch swallows it)
writeThrew(called, ip, writeOk) == called /\ ~(writeOk /\ ip # NULL)

\* ------------------------------------------------------------------- state
VARIABLES
  ipFile,        \* content of last_ip.txt, or NoFile
  ipv6File,      \* content of last_ipv6.txt, or NoFile
  mode,          \* "single" | "daemon": what main() dispatches to
                 \* (the name of the function studied, in the
                 \* specifications of one function)
  forceUpdate,   \* args.includes("--force")
  config,        \* [apiToken, domain, useIPv6] : which settings are present
  mainPc,        \* position of main()
  exitCode,      \* -1 while the process runs, else the exit status
  timerArmed,    \* setInterval(update, ...) has been called
  run,           \* the locals of the runUpdate invocation
  tick,          \* bag of the in-flight invocations of the daemon's update()
  retry,         \* history: address whose dispatch failed last, no save since
  ev,            \* history: the last step of a tick (start, decision, result)
  rs             \* the invocation studied by a specification of one function

vars == <<ipFile, ipv6File, mode, forceUpdate, config, mainPc, exitCode,
          timerArmed, run, tick, retry, ev, rs>>

None == <<"none">>

\* the locals of a runUpdate invocation before it starts
IdleRun ==
  [pc |-> "idle", currentIP |-> NULL, currentIPv6 |-> NULL,
   resOk |-> FALSE, resBody |-> "none"]

NoEvent ==
  [kind |-> "none", by |-> "none", last |-> NULL, ip |-> NULL, ipv6 |-> NULL,
   branch |-> "none", sent |-> FALSE, outcome |-> "none", resOk |-> FALSE,
   resBody |-> "none", threw |-> FALSE, saveFailed |-> FALSE]

Configs == [apiToken : BOOLEAN, domain : BOOLEAN, useIPv6 : BOOLEAN]

\* the answers of the update endpoint: a network error, or a response with
\* a status and a body (JSON with results, JSON without, not JSON)
BodyKinds == {"ack", "noack", "malformed"}

\* ------------------------------------------------------- reconciler tests
\* runUpdate: if (!forceUpdate && lastIP === currentIP)
runUnchanged_noForce(force, lastIP, currentIP) == lastIP = currentIP

runUnchanged(force, lastIP, currentIP) == ~force /\ lastIP = currentIP

\* update(): if (lastIP === currentIP)
daemonUnchanged_inverted(lastIP, currentIP) == lastIP # currentIP

daemonUnchanged_firstRun(lastIP, currentIP) ==
  lastIP = NULL \/ lastIP = currentIP

daemonUnchanged(lastIP, currentIP) == lastIP = currentIP

\* update(): if (config.apiToken && config.domain)
daemonCanDispatch(cfg) == cfg.apiToken /\ cfg.domain

\* update(): saveCurrentIP is reached only through `if (res.ok)`, which a
\* rejected fetch never reaches
daemonSaves_always(outcome, resOk, resBody) == TRUE

daemonSaves(outcome, resOk, resBody) == outcome = "resp" /\ resOk

\* runUpdate: if (res.ok && data.results)
runSaves_always(resOk, resBody) == TRUE

runSaves(resOk, resBody) == resOk /\ resBody = "ack"

\* update(): the whole body is inside try { ... } catch (err) { log }
daemonCatches_not == FALSE

daemonCatches == TRUE

\* ------------------------------------------------------------------- Init
\* a first invocation of the CLI: neither state file has been written yet
Init ==
  /\ ipFile = NoFile
  /\ ipv6File = NoFile
  /\ mode \in {"single", "daemon"}
  /\ forceUpdate \in BOOLEAN
  /\ config \in Configs
  /\ mainPc = "start"
  /\ exitCode = -1
  /\ timerArmed = FALSE
  /\ run = IdleRun
  /\ tick = EmptyBag
  /\ retry = None
  /\ ev = NoEvent
  /\ rs = [pc |-> "idle", ipService |-> "none", idx |-> 0, log |-> << >>,
           result |-> NULL]

\* -------------------------------------------------------------- daemon mode
\* an invocation of update() waiting for getCurrentIP
Resolving ==
  [pc |-> "resolve4", currentIP |-> NULL, clean |-> FALSE, resBody |-> "none"]

\* an invocation of update() waiting for the fetch of /update-dns; clean: no
\* save has happened since it read the stored address
Fetching(ip, c) ==
  [pc |-> "fetch", currentIP |-> ip, clean |-> c, resBody |-> "none"]

\* a save happened: no in-flight invocation has read the stored address since
MarkSaved(b) == BagOfAll(LAMBDA t : [t EXCEPT !.clean = FALSE], b)

\* update() is entered: getCurrentIP(...) is awaited
StartTick ==
  /\ tick' = tick (+) SetToBag({Resolving})
  /\ ev' = [NoEvent EXCEPT !.kind = "started", !.by = "daemon"]

\* runDaemonMode: `await update()`, the initial update
DaemonStart ==
  /\ mode = "daemon" /\ mainPc = "start" /\ exitCode = -1
  /\ StartTick
  /\ mainPc' = "awaitInitial"
  /\ UNCHANGED <<ipFile, ipv6File, mode, forceUpdate, config, exitCode,
                 timerArmed, run, retry, rs>>

\* runDaemonMode: setInterval(update, daemonInterval * 1000), reached when
\* the awaited initial update has settled
ArmTimer ==
  /\ mode = "daemon" /\ mainPc = "awaitInitial" /\ exitCode = -1
  /\ tick = EmptyBag
  /\ mainPc' = "armed"
  /\ timerArmed' = TRUE
  /\ UNCHANGED <<ipFile, ipv6File, mode, forceUpdate, config, exitCode,
                 run, tick, retry, ev, rs>>

\* the interval timer fires and calls update(); nothing awaits the call or
\* looks at whether an earlier call has settled
TimerFire ==
  /\ mode = "daemon" /\ timerArmed /\ exitCode = -1
  /\ BagCardinality(tick) < MaxTicks
  /\ StartTick
  /\ UNCHANGED <<ipFile, ipv6File, mode, forceUpdate, config, mainPc,
                 exitCode, timerArmed, run, retry, rs>>

\* an error reaches the end of update(): caught and logged, or, were it not
\* caught, the rejection ends the process
TickThrows ==
  IF daemonCatches
  THEN UNCHANGED <<exitCode, timerArmed>>
  ELSE exitCode' = 1 /\ timerArmed' = FALSE

\* update(): getCurrentIP(...).catch(() => null) settles with r; then, with
\* no await in between, loadLastIP, the comparison and the call of fetch
DaemonResolved(r) ==
  /\ mode = "daemon" /\ exitCode = -1
  /\ BagIn(Resolving, tick)
  /\ LET last == loadLastIP(ipFile)
         rest == tick (-) SetToBag({Resolving})
         e == [NoEvent EXCEPT !.kind = "decided", !.by = "daemon",
                              !.last = last, !.ip = r]
     IN  IF daemonUnchanged(last, r)
         THEN /\ tick' = rest
              /\ ev' = [e EXCEPT !.branch = "unchanged"]
         ELSE IF daemonCanDispatch(config)
         THEN /\ tick' = rest (+) SetToBag({Fetching(r, TRUE)})
              /\ ev' = [e EXCEPT !.branch = "changed", !.sent = TRUE]
         ELSE /\ tick' = rest
              /\ ev' = [e EXCEPT !.branch = "changed"]
  /\ UNCHANGED <<ipFile, ipv6File, mode, forceUpdate, config, mainPc,
                 exitCode, timerArmed, run, retry, rs>>

\* update(): the awaited fetch of /update-dns rejects (network error)
DaemonFetchRejects(t) ==
  /\ mode = "daemon" /\ exitCode = -1
  /\ BagIn(t, tick) /\ t.pc = "fetch"
  /\ LET w == daemonSaves("neterr", FALSE, "none")
         rest == tick (-) SetToBag({t})
     IN  /\ tick' = IF w THEN MarkSaved(rest) ELSE rest
         /\ ipFile' = saveCurrentIP(ipFile, t.currentIP, w)
         /\ retry' = IF t.clean THEN t.currentIP ELSE retry
         /\ ev' = [NoEvent EXCEPT !.kind = "settled", !.by = "daemon",
                                  !.ip = t.currentIP, !.sent = TRUE,
                                  !.outcome = "neterr", !.threw = TRUE,
                                  !.saveFailed =
                                     writeThrew(w, t.currentIP, TRUE)]
  /\ TickThrows
  /\ UNCHANGED <<ipv6File, mode, forceUpdate, config, mainPc, run, rs>>

\* update(): the awaited fetch resolves with a response; if (res.ok) the
\* address is saved, else res.json() is awaited for the error message
DaemonFetchResponds(t, ok, bodyKind, writeOk) ==
  /\ mode = "daemon" /\ exitCode = -1
  /\ BagIn(t, tick) /\ t.pc = "fetch"
  /\ LET w == daemonSaves("resp", ok, bodyKind)
         rest == tick (-) SetToBag({t})
         next == IF ok THEN rest
                 ELSE rest (+) SetToBag({[t EXCEPT !.pc = "json",
                                                   !.resBody = bodyKind]})
     IN  /\ tick' = IF w THEN MarkSaved(next) ELSE next
         /\ ipFile' = saveCurrentIP(ipFile, t.currentIP, w /\ writeOk)
         /\ retry' = IF w THEN None ELSE retry
         /\ ev' = IF ok
                  THEN [NoEvent EXCEPT !.kind = "settled", !.by = "daemon",
                                       !.ip = t.currentIP, !.sent = TRUE,
                                       !.outcome = "resp", !.resOk = TRUE,
                                       !.resBody = bodyKind,
                                       !.saveFailed =
                                          writeThrew(w, t.currentIP, writeOk)]
                  ELSE ev
  /\ UNCHANGED <<ipv6File, mode, forceUpdate, config, mainPc, exitCode,
                 timerArmed, run, rs>>

\* update(): res.json() of a non-2xx response settles: the server's error is
\* logged, or the body does not parse and the rejection is caught
DaemonJsonSettles(t) ==
  /\ mode = "daemon" /\ exitCode = -1
  /\ BagIn(t, tick) /\ t.pc = "json"
  /\ tick' = tick (-) SetToBag({t})
  /\ IF t.resBody = "malformed"
     THEN TickThrows
     ELSE UNCHANGED <<exitCode, timerArmed>>
  /\ ev' = [NoEvent EXCEPT !.kind = "settled", !.by = "daemon",
                           !.ip = t.currentIP, !.sent = TRUE,
                           !.outcome = "resp", !.resOk = FALSE,
                           !.resBody = t.resBody,
                           !.threw = (t.resBody = "malformed")]
  /\ UNCHANGED <<ipFile, ipv6File, mode, forceUpdate, config, mainPc, run,
                 retry, rs>>

\* ---------------------------------------------------------- single-shot run
\* runUpdate once both resolutions have settled: the "no IP" return, then
\* loadLastIP and the unchanged return, else the body is built (ipv6 only
\* when one was resolved) and fetch is called
RunDecide(ip, ip6) ==
  LET last == loadLastIP(ipFile)
      t == [run EXCEPT !.currentIP = ip, !.currentIPv6 = ip6]
      e == [NoEvent EXCEPT !.kind = "decided", !.by = "single",
                           !.ip = ip, !.ipv6 = ip6]
  IN  IF ip = NULL /\ ip6 = NULL
      THEN /\ run' = [t EXCEPT !.pc = "done"]
           /\ ev' = [e EXCEPT !.branch = "noip"]
           /\ exitCode' = 0
      ELSE IF runUnchanged(forceUpdate, last, ip)
      THEN /\ run' = [t EXCEPT !.pc = "done"]
           /\ ev' = [e EXCEPT !.last = last, !.branch = "unchanged"]
           /\ exitCode' = 0
      ELSE /\ run' = [t EXCEPT !.pc = "fetch"]
           /\ ev' = [e EXCEPT !.last = last, !.sent = TRUE,
                              !.branch = IF forceUpdate THEN "forced"
                                         ELSE "changed"]
           /\ UNCHANGED exitCode

\* main: `else await runUpdate()`; runUpdate reads config.apiToken
RunStart ==
  /\ mode = "single" /\ mainPc = "start" /\ exitCode = -1
  /\ mainPc' = "runUpdate"
  /\ run' = [IdleRun EXCEPT
               !.pc = IF config.apiToken THEN "resolve4" ELSE "prompt"]
  /\ ev' = [NoEvent EXCEPT !.kind = "started", !.by = "single"]
  /\ UNCHANGED <<ipFile, ipv6File, mode, forceUpdate, config, exitCode,
                 timerArmed, tick, retry, rs>>

\* runUpdate without a stored token: promptInput, then fetchRemoteConfig;
\* the prompt is closed (main catches, exit 1), no configuration is found
\* (return), or config = { ...remoteConfig, apiToken }
RunPrompt(answer, remote) ==
  /\ mode = "single" /\ exitCode = -1
  /\ run.pc = "prompt"
  /\ CASE answer = "closed" ->
            /\ run' = [run EXCEPT !.pc = "done"]
            /\ ev' = [NoEvent EXCEPT !.kind = "decided", !.by = "single",
                                     !.branch = "noconfig", !.threw = TRUE]
            /\ exitCode' = 1
            /\ UNCHANGED config
       [] answer = "notfound" ->
            /\ run' = [run EXCEPT !.pc = "done"]
            /\ ev' = [NoEvent EXCEPT !.kind = "decided", !.by = "single",
                                     !.branch = "noconfig"]
            /\ exitCode' = 0
            /\ UNCHANGED config
       [] OTHER ->
            /\ run' = [run EXCEPT !.pc = "resolve4"]
            /\ config' = [remote EXCEPT !.apiToken = TRUE]
            /\ UNCHANGED <<exitCode, ev>>
  /\ UNCHANGED <<ipFile, ipv6File, mode, forceUpdate, mainPc, timerArmed,
                 tick, retry, rs>>

\* runUpdate: getCurrentIP(config.ipService).catch(() => null) settles with
\* r; with IPv6 enabled getCurrentIPv6 is awaited next, else the run decides
RunResolved4(r) ==
  /\ mode = "single" /\ exitCode = -1
  /\ run.pc = "resolve4"
  /\ IF config.useIPv6
     THEN /\ run' = [run EXCEPT !.pc = "resolve6", !.currentIP = r]
          /\ UNCHANGED <<ev, exitCode>>
     ELSE RunDecide(r, NULL)
  /\ UNCHANGED <<ipFile, ipv6File, mode, forceUpdate, config, mainPc,
                 timerArmed, tick, retry, rs>>

\* runUpdate: getCurrentIPv6(config.ipv6Service).catch(() => null) settles
RunResolved6(r6) ==
  /\ mode = "single" /\ exitCode = -1
  /\ run.pc = "resolve6"
  /\ RunDecide(run.currentIP, r6)
  /\ UNCHANGED <<ipFile, ipv6File, mode, forceUpdate, config, mainPc,
                 timerArmed, tick, retry, rs>>

\* what the request of this run carried
RunEvent ==
  [NoEvent EXCEPT !.kind = "settled", !.by = "single", !.ip = run.currentIP,
                  !.ipv6 = run.currentIPv6, !.sent = TRUE]

\* runUpdate: the awaited fetch of /update-dns rejects; nothing in runUpdate
\* catches it, main's catch reports it and calls process.exit(1)
RunFetchRejects ==
  /\ mode = "single" /\ exitCode = -1
  /\ run.pc = "fetch"
  /\ run' = [run EXCEPT !.pc = "done"]
  /\ ev' = [RunEvent EXCEPT !.outcome = "neterr", !.threw = TRUE]
  /\ exitCode' = 1
  /\ UNCHANGED <<ipFile, ipv6File, mode, forceUpdate, config, mainPc,
                 timerArmed, tick, retry, rs>>

\* runUpdate: the awaited fetch resolves; res.json() is awaited
RunFetchResponds(ok, bodyKind) ==
  /\ mode = "single" /\ exitCode = -1
  /\ run.pc = "fetch"
  /\ run' = [run EXCEPT !.pc = "json", !.resOk = ok, !.resBody = bodyKind]
  /\ UNCHANGED <<ipFile, ipv6File, mode, forceUpdate, config, mainPc,
                 exitCode, timerArmed, tick, retry, ev, rs>>

\* runUpdate: res.json() settles; a body that does not parse rejects (main
\* catches, exit 1); if (res.ok && data.results) saveCurrentIP(currentIP),
\* else the error is printed; both return normally
RunJsonSettles(writeOk) ==
  /\ mode = "single" /\ exitCode = -1
  /\ run.pc = "json"
  /\ run' = [run EXCEPT !.pc = "done"]
  /\ LET e == [RunEvent EXCEPT !.outcome = "resp", !.resOk = run.resOk,
                               !.resBody = run.resBody]
     IN  IF run.resBody = "malformed"
         THEN /\ ev' = [e EXCEPT !.threw = TRUE]
              /\ exitCode' = 1
              /\ UNCHANGED ipFile
         ELSE LET w == runSaves(run.resOk, run.resBody)
              IN  /\ ev' = [e EXCEPT !.saveFailed =
                                        writeThrew(w, run.currentIP, writeOk)]
                  /\ exitCode' = 0
                  /\ ipFile' = saveCurrentIP(ipFile, run.currentIP,
                                              w /\ writeOk)
  /\ UNCHANGED <<ipv6File, mode, forceUpdate, config, mainPc, timerArmed,
                 tick, retry, rs>>

\* the process has ended; the CLI is invoked again with other arguments and
\* configuration, the two state files are what the last process left
NewProcess ==
  /\ exitCode # -1
  /\ mode' \in {"single", "daemon"}
  /\ forceUpdate' \in BOOLEAN
  /\ config' \in Configs
  /\ mainPc' = "start"
  /\ exitCode' = -1
  /\ timerArmed' = FALSE
  /\ run' = IdleRun
  /\ tick' = EmptyBag
  /\ retry' = None
  /\ ev' = NoEvent
  /\ UNCHANGED <<ipFile, ipv6File, rs>>

\* ------------------------------------------------------------ specification
\* the invocations of update() waiting for the update endpoint, and for the
\* body of its answer
InFlight == {t \in BagToSet(tick) : t.pc = "fetch"}
Parsing == {t \in BagToSet(tick) : t.pc = "json"}

Next ==
  \/ DaemonStart
  \/ ArmTimer
  \/ TimerFire
  \/ \E r \in IPs \cup {NULL} : DaemonResolved(r)
  \/ \E t \in InFlight : DaemonFetchRejects(t)
  \/ \E t \in InFlight, ok \in BOOLEAN, b \in BodyKinds, w \in BOOLEAN :
       DaemonFetchResponds(t, ok, b, w)
  \/ \E t \in Parsing : DaemonJsonSettles(t)
  \/ RunStart
  \/ \E a \in {"closed", "notfound", "found"}, c \in Configs : RunPrompt(a, c)
  \/ \E r \in IPs \cup {NULL} : RunResolved4(r)
  \/ \E r6 \in IP6s \cup {NULL} : RunResolved6(r6)
  \/ RunFetchRejects
  \/ \E ok \in BOOLEAN, b \in BodyKinds : RunFetchResponds(ok, b)
  \/ \E w \in BOOLEAN : RunJsonSettles(w)
  \/ NewProcess

Spec == Init /\ [][Next]_vars

\* the event loop runs a timer callback that is due, and main continues
\* once the initial update has settled
LiveSpec == Spec /\ WF_vars(ArmTimer) /\ WF_vars(TimerFire)

\* ------------------------------------------------------------ getCurrentIP
\* the fallback list of getCurrentIP, in its order
fallbacks ==
  <<"https://api.ipify.org", "https://ifconfig.me/ip",
    "https://icanhazip.com", "https://checkip.amazonaws.com">>

\* the ipService arguments tried: the default, a later entry of the fallback
\* list, and a URL that is not in the list
Services ==
  {"https://api.ipify.org", "https://icanhazip.com", "https://ip.example"}

\* response bodies a provider may send
Texts ==
  { IP_A,
    <<" ">> \o IP_B \o <<"\n">>,
    <<"9", "9", "9", ".", "0", ".", "1", "2", ".", "7">>,
    <<"1", ".", "1", ".", "1">>,
    <<"1", ".", "1", ".", "1", ".", "1", ".", "1">>,
    <<"1", "2", "3", "4", ".", "1", ".", "1", ".", "1">>,
    <<"1", ".", "1", ".", "1", ".", "1", ".">>,
    <<"1", ".", " ", "1", ".", "1", ".", "1">>,
    <<"1", ".", "1", ".", "1", ".", "x">>,
    V6_A,
    << >> }

\* what one provider does: fetch rejects (network error, or the abort timer
\* fires), or it resolves with a status and a body whose text is read (or
\* res.text() rejects)
Responses ==
  {[fetch |-> "rejects", ok |-> FALSE, text |-> None]}
  \cup {[fetch |-> "resolves", ok |-> FALSE, text |-> IP_A]}
  \cup {[fetch |-> "resolves", ok |-> TRUE, text |-> None]}
  \cup [fetch : {"resolves"}, ok : {TRUE}, text : Texts]

\* the address a provider's answer yields when it is accepted
accepted(resp) == Trim(resp.text)

\* first attempt: !res.ok throws, res.text() may reject, the regex decides
firstAccepts(resp) ==
  /\ resp.fetch = "resolves" /\ resp.ok /\ resp.text # None
  /\ ipv4Regex(Trim(resp.text))

\* fallback attempt: if (res.ok) { ip = trimmed text; if (regex) return ip }
fallbackAccepts_noRegex(resp) ==
  resp.fetch = "resolves" /\ resp.ok /\ resp.text # None

fallbackAccepts(resp) ==
  /\ resp.fetch = "resolves" /\ resp.ok /\ resp.text # None
  /\ ipv4Regex(Trim(resp.text))

\* after the loop: throw new Error("Unable to detect IP address")
exhausted_returnsNull == "returned"

exhausted == "threw"

\* for (const fallback of fallbacks) { if (fallback === ipService) continue
\* the first index from i on whose entry is not ipService, or past the end
nextFallback_noSkip(i, ipService) == i

RECURSIVE nextFallback(_, _)
nextFallback(i, ipService) ==
  IF i <= Len(fallbacks) /\ fallbacks[i] = ipService
  THEN nextFallback(i + 1, ipService) ELSE i

IdleResolver ==
  [pc |-> "idle", ipService |-> "none", idx |-> 0, log |-> << >>,
   result |-> NULL]

InitResolver ==
  /\ ipFile = NoFile
  /\ ipv6File = NoFile
  /\ mode = "resolver"
  /\ forceUpdate = FALSE
  /\ config = [apiToken |-> FALSE, domain |-> FALSE, useIPv6 |-> FALSE]
  /\ mainPc = "start"
  /\ exitCode = -1
  /\ timerArmed = FALSE
  /\ run = IdleRun
  /\ tick = EmptyBag
  /\ retry = None
  /\ ev = NoEvent
  /\ rs = IdleResolver

Frozen ==
  UNCHANGED <<ipFile, ipv6File, mode, forceUpdate, config, mainPc, exitCode,
              timerArmed, run, tick, retry, ev>>

\* getCurrentIP(ipService) is called: fetch(ipService) is awaited
ResolverCall(svc) ==
  /\ rs.pc = "idle"
  /\ rs' = [rs EXCEPT !.pc = "first", !.ipService = svc]
  /\ Frozen

\* the fallback loop moves on from index i: the next provider to query, or
\* the end of the loop
LoopFrom(r, i) ==
  LET n == nextFallback(i, r.ipService)
  IN  IF n <= Len(fallbacks)
      THEN [r EXCEPT !.pc = "fallback", !.idx = n]
      ELSE [r EXCEPT !.pc = exhausted, !.idx = n]

\* the first attempt settles: the validated address is returned, or the
\* catch block starts the fallback loop
ResolverFirst(resp) ==
  /\ rs.pc = "first"
  /\ LET r == [rs EXCEPT !.log = Append(@, [provider |-> rs.ipService,
                                            resp |-> resp])]
     IN  rs' = IF firstAccepts(resp)
               THEN [r EXCEPT !.pc = "returned", !.result = accepted(resp)]
               ELSE LoopFrom(r, 1)
  /\ Frozen

\* the attempt on fallbacks[idx] settles: the validated address is returned,
\* or the loop continues
ResolverFallback(resp) ==
  /\ rs.pc = "fallback"
  /\ LET r == [rs EXCEPT !.log = Append(@, [provider |-> fallbacks[rs.idx],
                                            resp |-> resp])]
     IN  rs' = IF fallbackAccepts(resp)
               THEN [r EXCEPT !.pc = "returned", !.result = accepted(resp)]
               ELSE LoopFrom(r, rs.idx + 1)
  /\ Frozen

NextResolver ==
  \/ \E svc \in Services : ResolverCall(svc)
  \/ \E resp \in Responses : ResolverFirst(resp)
  \/ \E resp \in Responses : ResolverFallback(resp)

SpecResolver == InitResolver /\ [][NextResolver]_vars

\* ================================================================ properties
\* the dotted-quad pattern stated on its own: exactly three dots, digits
\* elsewhere, and every group between the boundaries has 1 to 3 characters
DottedQuad(t) ==
  LET dots == {i \in 1..Len(t) : t[i] = "."}
      bounds == dots \cup {0, Len(t) + 1}
  IN  /\ Cardinality(dots) = 3
      /\ \A i \in 1..Len(t) : t[i] \in Digits \cup {"."}
      /\ \A b \in bounds \ {Len(t) + 1} :
           LET nxt == CHOOSE c \in bounds :
                        c > b /\ \A d \in bounds : d > b => c <= d
           IN  (nxt - b - 1) \in 1..3

\* what the update endpoint's answer of the last settled tick amounts to
Acknowledged(e) == e.outcome = "resp" /\ e.resOk /\ e.resBody = "ack"

\* C1: in daemon mode at most one tick is executing at any time.
C1_NoOverlap == mode = "daemon" => BagCardinality(tick) <= 1

\* C2: without the force flag, when the stored IPv4 address exists and
\* equals the resolved one, the tick decides Unchanged and sends no request
\* (single-shot run and daemon tick).
C2_Idempotence ==
  (ev.kind = "decided" /\ ~forceUpdate /\ ev.last # NULL /\ ev.last = ev.ip)
    => /\ ev.branch = "unchanged"
       /\ ~ev.sent
       /\ ev.by = "single" => run.pc = "done"

C2_Witness ==
  /\ ev.kind = "decided" /\ ~forceUpdate /\ ev.by = "daemon"
  /\ ev.last \in IPs /\ ev.last = ev.ip /\ daemonCanDispatch(config)

C4_ForceAlways ==
  (ev.kind = "decided" /\ forceUpdate)
    => (ev.sent /\ ev.branch = "forced")

\* C4 amended: in a single-shot run with the force flag in which at least
\* one address was resolved, the decision is ForcedUpdate and the request is
\* dispatched, also when the stored address equals the resolved one.
C4_ForceSingleShot ==
  (ev.kind = "decided" /\ forceUpdate /\ ev.by = "single"
     /\ (ev.ip # NULL \/ ev.ipv6 # NULL))
    => (ev.sent /\ ev.branch = "forced" /\ run.pc \in {"fetch", "json"})

C4_Witness ==
  /\ ev.kind = "decided" /\ forceUpdate /\ ev.by = "single"
  /\ ev.ip \in IPs /\ ev.last = ev.ip /\ ev.sent

\* C5: a tick whose update call fails (network error, non-2xx status, or a
\* 2xx answer whose body is malformed or lacks the acknowledged result)
\* leaves the stored last-IP state as it was.
C5_FailedLeavesState ==
  [][(ev'.kind = "settled" /\ (tick' # tick \/ run' # run)
        /\ ~Acknowledged(ev'))
       => ipFile' = ipFile]_vars

\* C6: after a tick whose update call was acknowledged, save has been
\* invoked for every family sent: the stored IPv4 is the sent IPv4 (unless
\* the write itself threw) and the stored IPv6 is the sent IPv6.
C6_SuccessAdvances ==
  (ev.kind = "settled" /\ Acknowledged(ev))
    => /\ ev.saveFailed \/ ipFile = ev.ip
       /\ ev.ipv6 # NULL => ipv6File = ev.ipv6

\* C7: after a daemon tick's dispatch failed with a network error, and as
\* long as no dispatch has succeeded since that tick read the stored address
\* and dispatched, the stored address differs from
\* the one that failed, and every tick that resolves that address again
\* decides Changed and dispatches again.
C7_Resilience ==
  retry # None
    => /\ loadLastIP(ipFile) # retry
       /\ (ev.kind = "decided" /\ ev.by = "daemon" /\ ev.ip = retry)
            => (ev.branch = "changed" /\ ev.sent)

C7_Witness ==
  /\ retry \in IPs /\ ev.kind = "decided" /\ ev.by = "daemon"
  /\ ev.ip = retry /\ ev.sent /\ ipFile \in IPs

\* a daemon tick has ended in a failure: an error was caught, the server
\* refused the update, or no address was resolved and nothing was sent
TickFailed ==
  /\ mode = "daemon"
  /\ \/ ev.kind = "settled" /\ (ev.threw \/ ~ev.resOk)
     \/ ev.kind = "decided" /\ ev.ip = NULL /\ ~ev.sent

\* C8: every error of a daemon tick is caught at the tick boundary: the
\* daemon process never ends, after a failed tick the timer is armed (or
\* about to be, after the initial tick), and a later tick starts.
C8_DaemonSurvives ==
  /\ [](mode = "daemon" => exitCode = -1)
  /\ [](TickFailed => (timerArmed \/ mainPc = "awaitInitial"))
  /\ TickFailed ~> (ev.kind = "started" /\ ev.by = "daemon")

C8_Witness == TickFailed /\ ev.threw /\ timerArmed

\* the answer of the provider queried last
LastAnswer == rs.log[Len(rs.log)].resp

\* a provider's attempt counts as failed: error or timeout, non-2xx status,
\* unreadable body, or text that is not a dotted quad after trimming
FailedAnswer(q) ==
  \/ q.fetch = "rejects" \/ ~q.ok \/ q.text = None
  \/ ~DottedQuad(Trim(q.text))

\* C9: getCurrentIP returns a provider's text, trimmed, exactly when the
\* trimmed text matches the dotted-quad pattern; otherwise the provider
\* counts as failed and the next fallback is tried; nothing that fails the
\* pattern is returned.
C9_Validation ==
  /\ rs.pc = "returned" => DottedQuad(rs.result)
  /\ rs.log # << >> =>
       /\ \A i \in 1..(Len(rs.log) - 1) : FailedAnswer(rs.log[i].resp)
       /\ (LastAnswer.fetch = "resolves" /\ LastAnswer.ok
             /\ LastAnswer.text # None) =>
            /\ DottedQuad(Trim(LastAnswer.text))
                 <=> (rs.pc = "returned"
                        /\ rs.result = Trim(LastAnswer.text))
            /\ ~DottedQuad(Trim(LastAnswer.text)) =>
                 \/ rs.pc = "threw"
                 \/ /\ rs.pc = "fallback"
                    /\ \A i \in 1..Len(rs.log) :
                         rs.log[i].provider # fallbacks[rs.idx]

C9_Witness ==
  /\ rs.pc = "returned" /\ Len(rs.log) = 3
  /\ LastAnswer.text # rs.result

\* every provider getCurrentIP(ipService) can query
AllProviders(ipService) ==
  {ipService} \cup {fallbacks[i] : i \in 1..Len(fallbacks)}

\* C10: when the preferred provider and every fallback provider failed,
\* getCurrentIP ends with the 'Unable to detect IP address' error and
\* returns no address.
C10_Exhaustion ==
  (/\ rs.pc # "idle"
   /\ \A i \in 1..Len(rs.log) : FailedAnswer(rs.log[i].resp)
   /\ {rs.log[i].provider : i \in 1..Len(rs.log)}
        = AllProviders(rs.ipService))
    => (rs.pc = "threw" /\ rs.result = NULL)

C10_Witness ==
  /\ rs.pc = "threw" /\ Len(rs.log) = 5
  /\ \E i \in 1..5 : rs.log[i].resp.ok /\ rs.log[i].resp.text \in Texts

\* ---------------------------------------------------------------- C11
\* the fallback entries other than ipService, in the order of the list
OtherFallbacks(ipService) ==
  SelectSeq(fallbacks, LAMBDA f : f # ipService)

\* the providers one call queries when every one of them fails
QueryOrder(ipService) == <<ipService>> \o OtherFallbacks(ipService)

\* C11: one getCurrentIP call queries the preferred provider first, then the
\* fallback list in its fixed order without the provider already tried, each
\* provider at most once, none after the first that yields a valid address,
\* and it returns the address of the first provider in that order that
\* validates.
C11_FallbackOrder ==
  LET n == Len(rs.log)
      order == QueryOrder(rs.ipService)
  IN  /\ n <= Len(order)
      /\ \A i \in 1..n : rs.log[i].provider = order[i]
      /\ \A i, j \in 1..n : i # j => rs.log[i].provider # rs.log[j].provider
      /\ \A i \in 1..n :
           ~FailedAnswer(rs.log[i].resp)
             => /\ i = n
                /\ rs.pc = "returned"
                /\ rs.result = Trim(rs.log[i].resp.text)
      /\ rs.pc = "fallback" => /\ n < Len(order)
                               /\ fallbacks[rs.idx] = order[n + 1]
      /\ rs.pc = "returned" => ~FailedAnswer(rs.log[n].resp)

C11_Witness ==
  /\ rs.pc = "returned" /\ rs.ipService = "https://icanhazip.com"
  /\ Len(rs.log) = 4
  /\ rs.log[4].provider = "https://checkip.amazonaws.com"

\* ---------------------------------------------------------- getCurrentIPv6
\* the ipService6 arguments tried: the default, another IPv6 provider, and
\* an IPv4 provider configured by mistake
Services6 ==
  {"https://api6.ipify.org", "https://v6.example", "https://api.ipify.org"}

\* response bodies an IPv6 provider may send
Texts6 ==
  Texts \cup
  { V6_B,
    <<" ">> \o V6_B \o <<"\n">>,
    <<":">>,
    <<"x">>,
    <<"1", ":", " ", "2">> }

\* what the provider does: fetch rejects (network error or abort), or it
\* resolves with a status and a body whose text is read (or res.text()
\* rejects)
Responses6 ==
  {[fetch |-> "rejects", ok |-> FALSE, text |-> None]}
  \cup [fetch : {"resolves"}, ok : BOOLEAN, text : Texts6 \cup {None}]

\* try block: !res.ok throws, res.text() may reject, then ip.includes(':')
v6Accepts_anyText(resp) ==
  resp.fetch = "resolves" /\ resp.ok /\ resp.text # None

v6Accepts(resp) ==
  /\ resp.fetch = "resolves" /\ resp.ok /\ resp.text # None
  /\ includesColon(Trim(resp.text))

\* catch (err) { return null }
v6Caught == "returned"

IdleResolver6 ==
  [pc |-> "idle", ipService6 |-> "none", resp |-> None, queried |-> 0,
   result |-> NULL]

InitResolver6 ==
  /\ ipFile = NoFile
  /\ ipv6File = NoFile
  /\ mode = "resolver6"
  /\ forceUpdate = FALSE
  /\ config = [apiToken |-> FALSE, domain |-> FALSE, useIPv6 |-> TRUE]
  /\ mainPc = "start"
  /\ exitCode = -1
  /\ timerArmed = FALSE
  /\ run = IdleRun
  /\ tick = EmptyBag
  /\ retry = None
  /\ ev = NoEvent
  /\ rs = IdleResolver6

\* getCurrentIPv6(ipService6) is called: fetch(ipService6) is awaited
Resolver6Call(svc) ==
  /\ rs.pc = "idle"
  /\ rs' = [rs EXCEPT !.pc = "first", !.ipService6 = svc]
  /\ Frozen

\* the only attempt settles: the trimmed text is returned when it contains a
\* colon, every failure ends in the catch block
Resolver6Settles(resp) ==
  /\ rs.pc = "first"
  /\ LET r == [rs EXCEPT !.resp = resp, !.queried = @ + 1]
     IN  rs' = IF v6Accepts(resp)
               THEN [r EXCEPT !.pc = "returned", !.result = Trim(resp.text)]
               ELSE [r EXCEPT !.pc = v6Caught]
  /\ Frozen

NextResolver6 ==
  \/ \E svc \in Services6 : Resolver6Call(svc)
  \/ \E resp \in Responses6 : Resolver6Settles(resp)

SpecResolver6 == InitResolver6 /\ [][NextResolver6]_vars

\* ---------------------------------------------------------------- C12
\* the text holds at least one colon
HasColon(t) == Cardinality({i \in 1..Len(t) : t[i] = ":"}) >= 1

\* the provider did not yield text with a colon
NoColonAnswer(q) ==
  q.fetch = "rejects" \/ ~q.ok \/ q.text = None \/ ~HasColon(q.text)

\* C12: getCurrentIPv6 never ends in an error; it returns null when the
\* provider yields no text containing a colon, and a value it returns that
\* is not null contains a colon.
C12_SoftIPv6 ==
  /\ rs.pc # "threw"
  /\ rs.pc = "returned" =>
       /\ rs.result # NULL => HasColon(rs.result)
       /\ NoColonAnswer(rs.resp) => rs.result = NULL

C12_Witness ==
  /\ rs.pc = "returned" /\ rs.result = NULL
  /\ rs.resp.fetch = "resolves" /\ rs.resp.ok /\ rs.resp.text = IP_A

\* ------------------------------------------------------------ credentials
\* the three prefixes getAuthHeaders takes for an API key
KeyPrefixes ==
  { <<"a", "k", "_">>,
    <<"a", "p", "e", "r", "t", "o", "d", "n", "s", "_",
      "l", "i", "v", "e", "_">>,
    <<"a", "p", "e", "r", "t", "o", "d", "n", "s", "_",
      "t", "e", "s", "t", "_">> }

\* how a credential text may begin: the key prefixes, a JWT, and a near miss
Shapes == KeyPrefixes \cup { <<"e", "y", "J">>, <<"a", "k">> }

\* the credentials a source can hold: one per shape, ending in the mark of
\* the source ("c" --api-key, "e" APERTODNS_API_KEY, "j" config.jwtToken,
\* "a" config.apiToken, "p" typed at the prompt)
TokensOf(mark) == {s \o <<mark>> : s \in Shapes}

\* String.prototype.startsWith
startsWith(t, p) == Len(t) >= Len(p) /\ SubSeq(t, 1, Len(p)) = p

\* JavaScript truthiness of an option, an environment entry or a config field
truthy(t) == t # None /\ t # << >>

\* getAuthHeaders(token): the name of the one header it returns
getAuthHeaders(token) ==
  IF truthy(token) /\ \E p \in KeyPrefixes : startsWith(token, p)
  THEN "X-API-Key"
  ELSE "Authorization: Bearer"

\* the headers literal of the /update-dns requests of runUpdate and update()
updateDnsHeaders(token) == "Authorization: Bearer"

\* getAuthToken(): the first source that holds a credential, None when the
\* prompt is reached
getAuthToken(a) ==
  IF truthy(a.cli) THEN a.cli
  ELSE IF truthy(a.env) THEN a.env
  ELSE IF truthy(a.jwt) THEN a.jwt
  ELSE IF truthy(a.api) THEN a.api
  ELSE None

\* the operations that authenticate: the default single-shot update, a
\* daemon tick that found a changed address, and --update <domain>, which
\* stands for the commands that call getAuthToken
Operations == {"runUpdate", "daemon", "updateSingleDomain"}

IdleAuth ==
  [pc |-> "start", op |-> "none", cli |-> None, env |-> None, jwt |-> None,
   api |-> None, used |-> None, prompted |-> FALSE, header |-> "none",
   endpoint |-> "none"]

InitAuth ==
  /\ ipFile = NoFile
  /\ ipv6File = NoFile
  /\ mode = "auth"
  /\ forceUpdate = FALSE
  /\ config = [apiToken |-> FALSE, domain |-> TRUE, useIPv6 |-> FALSE]
  /\ mainPc = "start"
  /\ exitCode = -1
  /\ timerArmed = FALSE
  /\ run = IdleRun
  /\ tick = EmptyBag
  /\ retry = None
  /\ ev = NoEvent
  /\ \E c \in TokensOf("c") \cup {None}, e \in TokensOf("e") \cup {None},
        j \in TokensOf("j") \cup {None}, a \in TokensOf("a") \cup {None} :
       rs = [IdleAuth EXCEPT !.cli = c, !.env = e, !.jwt = j, !.api = a]

\* runUpdate: let apiToken = config.apiToken; if (!apiToken) the prompt
AuthRunUpdate ==
  /\ rs.pc = "start"
  /\ rs' = IF truthy(rs.api)
           THEN [rs EXCEPT !.pc = "request", !.op = "runUpdate",
                           !.used = rs.api,
                           !.header = updateDnsHeaders(rs.api),
                           !.endpoint = "/update-dns"]
           ELSE [rs EXCEPT !.pc = "prompt", !.op = "runUpdate",
                           !.prompted = TRUE]
  /\ Frozen

\* the answer typed at runUpdate's prompt becomes config.apiToken when
\* fetchRemoteConfig finds a configuration, else runUpdate returns
AuthRunUpdateAnswer(answer, found) ==
  /\ rs.pc = "prompt" /\ rs.op = "runUpdate"
  /\ rs' = IF found
           THEN [rs EXCEPT !.pc = "request", !.api = answer,
                           !.used = answer,
                           !.header = updateDnsHeaders(answer),
                           !.endpoint = "/update-dns"]
           ELSE [rs EXCEPT !.pc = "returned"]
  /\ Frozen

\* update() of the daemon on a changed address: if (config.apiToken &&
\* config.domain) the request, else nothing
AuthDaemonTick ==
  /\ rs.pc = "start"
  /\ rs' = IF truthy(rs.api)
           THEN [rs EXCEPT !.pc = "request", !.op = "daemon",
                           !.used = rs.api,
                           !.header = updateDnsHeaders(rs.api),
                           !.endpoint = "/update-dns"]
           ELSE [rs EXCEPT !.pc = "skipped", !.op = "daemon"]
  /\ Frozen

\* updateSingleDomain: const token = await getAuthToken(), then the PATCH
\* with getAuthHeaders(token)
AuthUpdateSingleDomain ==
  /\ rs.pc = "start"
  /\ LET token == getAuthToken(rs)
     IN  rs' = IF token # None
               THEN [rs EXCEPT !.pc = "request",
                               !.op = "updateSingleDomain",
                               !.used = token,
                               !.header = getAuthHeaders(token),
                               !.endpoint = "/domains/:id"]
               ELSE [rs EXCEPT !.pc = "prompt",
                               !.op = "updateSingleDomain",
                               !.prompted = TRUE]
  /\ Frozen

\* the answer typed at getAuthToken's prompt is the token
AuthTokenAnswer(answer) ==
  /\ rs.pc = "prompt" /\ rs.op = "updateSingleDomain"
  /\ rs' = [rs EXCEPT !.pc = "request", !.used = answer,
                      !.header = getAuthHeaders(answer),
                      !.endpoint = "/domains/:id"]
  /\ Frozen

NextAuth ==
  \/ AuthRunUpdate
  \/ \E answer \in TokensOf("p"), found \in BOOLEAN :
       AuthRunUpdateAnswer(answer, found)
  \/ AuthDaemonTick
  \/ AuthUpdateSingleDomain
  \/ \E answer \in TokensOf("p") \cup {<< >>} : AuthTokenAnswer(answer)

SpecAuth == InitAuth /\ [][NextAuth]_vars

\* ---------------------------------------------------------------- C13
\* the credential the documented order selects from the sources of a state
Persisted(a) == {a.jwt, a.api} \ {None}

\* C13: every operation of the core, the update paths included, uses the
\* --api-key argument when given, else the environment key when set, else
\* the persisted credential, and prompts only when none of them exists and
\* the operation is a single-shot one.
C13_CredentialOrder ==
  /\ (rs.pc = "request" /\ ~rs.prompted) =>
       IF rs.cli # None THEN rs.used = rs.cli
       ELSE IF rs.env # None THEN rs.used = rs.env
       ELSE rs.used \in Persisted(rs)
  /\ rs.pc = "prompt" =>
       /\ rs.cli = None /\ rs.env = None /\ Persisted(rs) = {}
       /\ rs.op # "daemon"


\* ---------------------------------------------------------------- C14
\* C14: a daemon tick never waits at a prompt, and a tick that found a
\* changed address while no credential is configured ends as a failure (an
\* error reaches the catch block of update() and is logged), not silently.
C14_DaemonAuthMissing ==
  /\ mode = "daemon" => run.pc # "prompt"
  /\ (/\ ev.by = "daemon" /\ ev.kind = "decided"
      /\ ev.branch = "changed" /\ ~config.apiToken)
       => ev.threw


\* ---------------------------------------------------------------- C15
\* the single-shot run ended well: nothing had to be sent, or the update
\* endpoint acknowledged the request
RunSucceeded ==
  /\ ev.by = "single"
  /\ \/ ev.kind = "decided" /\ ev.branch = "unchanged"
     \/ ev.kind = "settled" /\ Acknowledged(ev)

\* C15: a single-shot run exits with status 0 only when it succeeded; with
\* no address resolved, no configuration, or a rejection by the server, it
\* exits with a status other than 0.
C15_ExitStatus ==
  (mode = "single" /\ exitCode # -1) => (exitCode = 0 <=> RunSucceeded)


\* ------------------------------------------------------ daemon scheduling
\* the most calls of update() the interval timer makes in one behaviour
MaxFires == 3

\* daemonInterval: parseInt of the --interval option, 300 without it
Intervals == {0, 1, 2, 5, 300}

\* milliseconds the awaited initial update() may take, and milliseconds a
\* timer callback may run after it is due
Durations == {1, 1500}
Lateness == {0, 1, 1000}

\* the delay setInterval uses for its argument: values below 1 become 1
timerDelay(ms) == IF ms < 1 THEN 1 ELSE ms

\* runDaemonMode: `await update()` before setInterval
awaitsInitial_not == FALSE

awaitsInitial == TRUE

IdleTimer ==
  [pc |-> "start", interval |-> 300, now |-> 0, due |-> -1, fires |-> 0,
   initialSettled |-> FALSE, log |-> << >>]

InitTimer ==
  /\ ipFile = NoFile
  /\ ipv6File = NoFile
  /\ mode = "timer"
  /\ forceUpdate = FALSE
  /\ config = [apiToken |-> TRUE, domain |-> TRUE, useIPv6 |-> FALSE]
  /\ mainPc = "start"
  /\ exitCode = -1
  /\ timerArmed = FALSE
  /\ run = IdleRun
  /\ tick = EmptyBag
  /\ retry = None
  /\ ev = NoEvent
  /\ \E i \in Intervals : rs = [IdleTimer EXCEPT !.interval = i]

\* setInterval(update, daemonInterval * 1000) at the present instant
Armed(r) ==
  [r EXCEPT !.pc = "armed",
            !.due = r.now + timerDelay(r.interval * 1000),
            !.log = Append(@, [what |-> "arm", at |-> r.now])]

\* runDaemonMode calls update(): the initial tick starts; without the await
\* the timer would be armed in the same step
TimerDaemonStart ==
  /\ rs.pc = "start"
  /\ LET r == [rs EXCEPT !.pc = "initial",
                         !.log = Append(@, [what |-> "initial",
                                            at |-> rs.now])]
     IN  rs' = IF awaitsInitial THEN r ELSE Armed(r)
  /\ Frozen

\* the initial update() settles after d milliseconds (it never rejects: its
\* body is a try/catch); the await returns and setInterval is called
TimerInitialSettles(d) ==
  /\ ~rs.initialSettled
  /\ rs.pc = IF awaitsInitial THEN "initial" ELSE "armed"
  /\ LET r == [rs EXCEPT !.now = @ + d, !.initialSettled = TRUE,
                         !.log = Append(@, [what |-> "settled",
                                            at |-> rs.now + d])]
     IN  rs' = IF awaitsInitial THEN Armed(r) ELSE r
  /\ Frozen

\* the interval timer runs update() when it is due, or l milliseconds late,
\* and is due again one delay later
TimerFires(l) ==
  /\ rs.pc = "armed" /\ rs.fires < MaxFires
  /\ LET at == (IF rs.now > rs.due THEN rs.now ELSE rs.due) + l
     IN  rs' = [rs EXCEPT !.now = at, !.fires = @ + 1,
                          !.due = at + timerDelay(rs.interval * 1000),
                          !.log = Append(@, [what |-> "timer", at |-> at])]
  /\ Frozen

NextTimer ==
  \/ TimerDaemonStart
  \/ \E d \in Durations : TimerInitialSettles(d)
  \/ \E l \in Lateness : TimerFires(l)

SpecTimer == InitTimer /\ [][NextTimer]_vars

\* ---------------------------------------------------------------- C16
\* the positions of the log holding an event of the kind
LogAt(what) == {i \in 1..Len(rs.log) : rs.log[i].what = what}

FileStates ==
  { NoFile, Unreadable, IP_A, V6_A,
    << >>,
    <<" ", "\n">>,
    IP_B \o <<"\n">>,
    <<"x">> }

IdleStore ==
  [op |-> "none", arg |-> NULL, wrote |-> FALSE, before4 |-> NULL,
   before6 |-> NULL, result |-> NULL]

InitStore ==
  /\ ipFile \in FileStates
  /\ ipv6File \in FileStates
  /\ mode = "store"
  /\ forceUpdate = FALSE
  /\ config = [apiToken |-> TRUE, domain |-> TRUE, useIPv6 |-> TRUE]
  /\ mainPc = "start"
  /\ exitCode = -1
  /\ timerArmed = FALSE
  /\ run = IdleRun
  /\ tick = EmptyBag
  /\ retry = None
  /\ ev = NoEvent
  /\ rs = IdleStore

FrozenStore ==
  UNCHANGED <<mode, forceUpdate, config, mainPc, exitCode, timerArmed, run,
              tick, retry, ev>>

\* what both loads return now
Saving(op, ip, writeOk) ==
  [IdleStore EXCEPT !.op = op, !.arg = ip,
                    !.wrote = ~writeThrew(TRUE, ip, writeOk),
                    !.before4 = loadLastIP(ipFile),
                    !.before6 = loadLastIPv6(ipv6File)]

\* saveCurrentIP(ip)
StoreSave4(ip, writeOk) ==
  /\ ipFile' = saveCurrentIP(ipFile, ip, writeOk)
  /\ rs' = Saving("save4", ip, writeOk)
  /\ UNCHANGED ipv6File
  /\ FrozenStore

\* saveCurrentIPv6(ip)
StoreSave6(ip, writeOk) ==
  /\ ipv6File' = saveCurrentIPv6(ipv6File, ip, writeOk)
  /\ rs' = Saving("save6", ip, writeOk)
  /\ UNCHANGED ipFile
  /\ FrozenStore

\* loadLastIP()
StoreLoad4 ==
  /\ rs' = [IdleStore EXCEPT !.op = "load4", !.result = loadLastIP(ipFile)]
  /\ UNCHANGED <<ipFile, ipv6File>>
  /\ FrozenStore

\* loadLastIPv6()
StoreLoad6 ==
  /\ rs' = [IdleStore EXCEPT !.op = "load6",
                             !.result = loadLastIPv6(ipv6File)]
  /\ UNCHANGED <<ipFile, ipv6File>>
  /\ FrozenStore

NextStore ==
  \/ \E ip \in IPs \cup {NULL}, w \in BOOLEAN : StoreSave4(ip, w)
  \/ \E ip \in IP6s \cup {NULL}, w \in BOOLEAN : StoreSave6(ip, w)
  \/ StoreLoad4
  \/ StoreLoad6

SpecStore == InitStore /\ [][NextStore]_vars

\* ---------------------------------------------------------------- C17
\* the last operation was a save of a validated address
Saved4 == rs.op = "save4" /\ DottedQuad(rs.arg)
Saved6 == rs.op = "save6" /\ rs.arg # NULL /\ HasColon(rs.arg)

HoldsAddress4(file) ==
  file \notin {NoFile, Unreadable} /\ DottedQuad(Trim(file))
HoldsAddress6(file) ==
  file \notin {NoFile, Unreadable} /\ HasColon(Trim(file))

\* C18: a load returns the stored address when the file holds one, and null
\* when the file is missing, unreadable or holds no address (an empty or
\* whitespace-only file included).
C18_MissingOrCorrupt ==
  /\ rs.op = "load4" =>
       rs.result = IF HoldsAddress4(ipFile) THEN Trim(ipFile) ELSE NULL
  /\ rs.op = "load6" =>
       rs.result = IF HoldsAddress6(ipv6File) THEN Trim(ipv6File) ELSE NULL


\* ---------------------------------------------------------------- C19
\* the credential begins with ak_, apertodns_live_ or apertodns_test_
KeyShaped(t) ==
  \E p \in KeyPrefixes :
    Len(t) >= Len(p) /\ \A i \in 1..Len(p) : t[i] = p[i]

\* C19: every request to /update-dns carries the X-API-Key header when its
\* credential is key-shaped and the bearer Authorization header otherwise.
C19_HeaderByShape ==
  (rs.pc = "request" /\ rs.endpoint = "/update-dns") =>
    rs.header = IF KeyShaped(rs.used) THEN "X-API-Key"
                ELSE "Authorization: Bearer"


\* ---------------------------------------------------------------- C20
\* C20: a single-shot run whose IPv4 resolution yielded nothing ends in the
\* "no address" error and sends no request, whether or not an IPv6 address
\* was resolved.
C20_NoIPv4Fatal ==
  (/\ ev.by = "single" /\ ev.kind \in {"decided", "settled"}
   /\ ev.branch # "noconfig" /\ ev.ip = NULL)
    => (ev.branch = "noip" /\ ~ev.sent)


\* ---------------------------------------------------------------- C21
\* C21: with IPv6 enabled, a run that resolved an IPv4 address (equal to the
\* stored one or not) and an IPv6 address that differs from the stored IPv6
\* address (or none is stored) dispatches one update request.
C21_JointDispatch ==
  (/\ ev.by = "single" /\ ev.kind = "decided" /\ ev.branch # "noconfig"
   /\ config.useIPv6
   /\ ev.ip # NULL
   /\ ev.ipv6 # NULL /\ ev.ipv6 # loadLastIPv6(ipv6File))
    => ev.sent


\* ---------------------------------------------------------------- C22
\* C22: getCurrentIPv6 returns null only after providers beyond the
\* preferred one have been tried, as getCurrentIP does with its fallbacks.
C22_V6Fallbacks ==
  (rs.pc = "returned" /\ rs.result = NULL) => rs.queried > 1


\* ---------------------------------------------------------------- C23
\* C23: a tick that has started reaches its completion: the daemon's
\* initial update(), the only invocation before the timer is armed, settles
\* whatever the providers and the update endpoint do.
C23_TickTerminates ==
  (mode = "daemon" /\ mainPc = "awaitInitial") ~> (tick = EmptyBag)


\* ------------------------------------------------------- termination signal
\* runDaemonMode installs no handler for SIGINT (2) or SIGTERM (15): the
\* default disposition ends the process at once with status 128 + signal;
\* the timer dies with it and the in-flight invocations of update() are
\* cut where they stand
DaemonKilled(sig) ==
  /\ mode = "daemon" /\ exitCode = -1
  /\ mainPc \in {"awaitInitial", "armed"}
  /\ exitCode' = 128 + sig
  /\ timerArmed' = FALSE
  /\ ev' = [NoEvent EXCEPT !.kind = "killed", !.by = "daemon"]
  /\ UNCHANGED <<ipFile, ipv6File, mode, forceUpdate, config, mainPc, run,
                 tick, retry, rs>>

NextSignal ==
  \/ Next
  \/ \E sig \in {2, 15} : DaemonKilled(sig)

SpecSignal == Init /\ [][NextSignal]_vars

\* ---------------------------------------------------------------- C24
\* C24: once a termination signal has arrived the timer is dead, and the
\* daemon's process ends only when the ticks that were in flight have run
\* to completion: no invocation of update() is left between its steps.
C24_Cancellation ==
  (mode = "daemon" /\ exitCode # -1) =>
    (~timerArmed /\ tick = EmptyBag)


\* --------------------------------------------------- interrupted state write
\* fs.writeFileSync(ipPath, ip) opens the path with truncation and then
\* writes the text; a process that ends in between leaves the file as it was
\* (not opened yet) or holding the first k characters of the text, from
\* none of them to all of them
writeInterrupted(file, ip, opened, k) ==
  IF opened THEN SubSeq(ip, 1, k) ELSE file

\* saveCurrentIP(ip) during which the process is killed
StoreSaveKilled4(ip, opened, k) ==
  /\ ipFile' = writeInterrupted(ipFile, ip, opened, k)
  /\ rs' = [IdleStore EXCEPT !.op = "killed4", !.arg = ip,
                             !.before4 = loadLastIP(ipFile),
                             !.before6 = loadLastIPv6(ipv6File)]
  /\ UNCHANGED ipv6File
  /\ FrozenStore

NextStoreKill ==
  \/ NextStore
  \/ \E ip \in IPs, opened \in BOOLEAN :
       \E k \in 0..Len(ip) : StoreSaveKilled4(ip, opened, k)

SpecStoreKill == InitStore /\ [][NextStoreKill]_vars

\* ---------------------------------------------------------------- C25
\* C25: after a save that was interrupted by the end of the process, the
\* load returns the value it returned before, null, or the whole new
\* address.
C25_CompleteOrAbsent ==
  rs.op = "killed4" => loadLastIP(ipFile) \in {rs.before4, NULL, rs.arg}


\* ---------------------------------------------------------------- C26
\* runUpdate waits for getCurrentIP; getCurrentIPv6 has been called
Pending4 == run.pc = "resolve4"
Started6 == run.pc \in {"resolve6", "fetch", "json", "done"}

\* C26: with IPv6 enabled the IPv6 resolution of a run is started without
\* waiting for the IPv4 resolution to settle, and the run decides only after
\* both have settled.
C26_FanOutFanIn ==
  /\ (mode = "single" /\ config.useIPv6 /\ Pending4) => Started6
  /\ (ev.by = "single" /\ ev.kind = "decided" /\ ev.branch # "noconfig")
       => run.pc \notin {"resolve4", "resolve6"}


\* ------------------------------------------------------- the --interval option
\* the longest argument text tried after --interval
MaxArgLen == 3

\* the characters of those texts
ArgChars == {"0", "1", "2", "x", ".", "-"}

\* the argument that follows --interval: a text, or None when --interval is
\* absent or is the last argument
RECURSIVE TextsUpTo(_)
TextsUpTo(n) ==
  IF n = 0 THEN {<< >>}
  ELSE LET shorter == TextsUpTo(n - 1)
       IN  shorter \cup {Append(t, c) : t \in shorter, c \in ArgChars}

ArgTexts == TextsUpTo(MaxArgLen) \cup {None}

\* getOption(name): the following argument when it exists, is not the empty
\* string and does not start with '-', else null
getOption(arg) ==
  IF arg # None /\ arg # << >> /\ arg[1] # "-" THEN arg ELSE NULL

\* a JavaScript number: an integer or NaN
Num(n) == [nan |-> FALSE, n |-> n]
NaN == [nan |-> TRUE, n |-> 0]

DigitSeq == <<"0", "1", "2", "3", "4", "5", "6", "7", "8", "9">>
DigitVal(c) == (CHOOSE i \in 1..Len(DigitSeq) : DigitSeq[i] = c) - 1

\* the value of the digits of t from position i on, acc being the value of
\* the digits before
RECURSIVE DigitsValue(_, _, _)
DigitsValue(t, i, acc) ==
  IF i <= Len(t) /\ t[i] \in Digits
  THEN DigitsValue(t, i + 1, acc * 10 + DigitVal(t[i]))
  ELSE acc

\* parseInt(text): leading whitespace is skipped, then an optional sign and
\* the longest run of digits; NaN when there is no digit
parseInt(text) ==
  LET t == TrimLeft(text)
      signed == t # << >> /\ t[1] \in {"-", "+"}
      from == IF signed THEN 2 ELSE 1
      v == DigitsValue(t, from, 0)
  IN  IF DigitsRun(t, from) = 0 THEN NaN
      ELSE Num(IF signed /\ t[1] = "-" THEN 0 - v ELSE v)

\* const daemonInterval = getOption("--interval") ? parseInt(...) : 300
daemonInterval(arg) ==
  IF getOption(arg) # NULL THEN parseInt(getOption(arg)) ELSE Num(300)

\* the period of setInterval(update, daemonInterval * 1000) in milliseconds:
\* NaN * 1000 is NaN, and a delay that is NaN or below 1 becomes 1
periodMs(d) == IF d.nan THEN 1 ELSE timerDelay(d.n * 1000)

IdleInterval ==
  [pc |-> "args", arg |-> None, daemonInterval |-> NaN, period |-> 0]

InitInterval ==
  /\ ipFile = NoFile
  /\ ipv6File = NoFile
  /\ mode = "interval"
  /\ forceUpdate = FALSE
  /\ config = [apiToken |-> TRUE, domain |-> TRUE, useIPv6 |-> FALSE]
  /\ mainPc = "start"
  /\ exitCode = -1
  /\ timerArmed = FALSE
  /\ run = IdleRun
  /\ tick = EmptyBag
  /\ retry = None
  /\ ev = NoEvent
  /\ \E a \in ArgTexts : rs = [IdleInterval EXCEPT !.arg = a]

\* module load: daemonInterval is computed from the arguments
IntervalParsed ==
  /\ rs.pc = "args"
  /\ rs' = [rs EXCEPT !.pc = "parsed",
                      !.daemonInterval = daemonInterval(rs.arg)]
  /\ Frozen

\* runDaemonMode: setInterval(update, daemonInterval * 1000)
IntervalArmed ==
  /\ rs.pc = "parsed"
  /\ rs' = [rs EXCEPT !.pc = "armed",
                      !.period = periodMs(rs.daemonInterval)]
  /\ Frozen

NextInterval ==
  \/ IntervalParsed
  \/ IntervalArmed

SpecInterval == InitInterval /\ [][NextInterval]_vars

\* ---------------------------------------------------------------- C27
\* C27: whatever follows --interval, the period with which the daemon arms
\* its timer is at least one second.
C27_IntervalFloor == rs.pc = "armed" => rs.period >= 1000


\* ---------------------------------------------------------------- C28
\* C28: every request sent to the update endpoint, by a daemon tick or a
\* single-shot run, carries in its ip field the validated IPv4 address
\* resolved in that tick; a tick whose IPv4 resolution failed sends none.
C28_DispatchCarriesIPv4 ==
  ev.sent => (ev.ip # NULL /\ DottedQuad(ev.ip))


Domains == {"a.example", "b.example"}

\* config.domain ("none" while there is no config.json), the domain whose
\* update wrote the present last_ip.txt, and the last run
IdleDomain ==
  [domain |-> "none", storedFor |-> "none", op |-> "none", force |-> FALSE,
   ip |-> NULL, last |-> NULL, branch |-> "none", sent |-> FALSE,
   sentFor |-> "none"]

InitDomain ==
  /\ ipFile = NoFile
  /\ ipv6File = NoFile
  /\ mode = "domains"
  /\ forceUpdate = FALSE
  /\ config = [apiToken |-> TRUE, domain |-> TRUE, useIPv6 |-> FALSE]
  /\ mainPc = "start"
  /\ exitCode = -1
  /\ timerArmed = FALSE
  /\ run = IdleRun
  /\ tick = EmptyBag
  /\ retry = None
  /\ ev = NoEvent
  /\ rs = IdleDomain

FrozenDomain ==
  UNCHANGED <<ipv6File, mode, forceUpdate, config, mainPc, exitCode,
              timerArmed, run, tick, retry, ev>>

\* a config.json naming domain d is written (setup, or the configuration
\* fetched for a token); last_ip.txt is not touched
DomainLogin(d) ==
  /\ rs.domain = "none"
  /\ rs' = [rs EXCEPT !.domain = d, !.op = "login"]
  /\ UNCHANGED ipFile
  /\ FrozenDomain

\* runLogout: fs.unlinkSync(CONFIG_PATH) and nothing else
DomainLogout ==
  /\ rs.domain # "none"
  /\ rs' = [rs EXCEPT !.domain = "none", !.op = "logout"]
  /\ UNCHANGED ipFile
  /\ FrozenDomain

\* one runUpdate of a process of its own, IPv6 disabled: the resolution
\* gives ip, and if a request is sent the endpoint answers with outcome, ok
\* and body
DomainRun(force, ip, outcome, ok, body, writeOk) ==
  /\ rs.domain # "none"
  /\ LET last == loadLastIP(ipFile)
         r == [rs EXCEPT !.op = "run", !.force = force, !.ip = ip,
                         !.last = last, !.sent = FALSE,
                         !.sentFor = "none"]
     IN  IF ip = NULL
         THEN /\ rs' = [r EXCEPT !.branch = "noip"]
              /\ UNCHANGED ipFile
         ELSE IF runUnchanged(force, last, ip)
         THEN /\ rs' = [r EXCEPT !.branch = "unchanged"]
              /\ UNCHANGED ipFile
         ELSE LET w == /\ outcome = "resp" /\ body # "malformed"
                       /\ runSaves(ok, body)
                       /\ writeOk
              IN  /\ rs' = [r EXCEPT !.branch = "changed", !.sent = TRUE,
                                     !.sentFor = rs.domain,
                                     !.storedFor = IF w THEN rs.domain
                                                   ELSE @]
                  /\ ipFile' = saveCurrentIP(ipFile, ip, w)
  /\ FrozenDomain

NextDomain ==
  \/ \E d \in Domains : DomainLogin(d)
  \/ DomainLogout
  \/ \E force \in BOOLEAN, ip \in IPs \cup {NULL},
        outcome \in {"neterr", "resp"}, ok \in BOOLEAN, body \in BodyKinds,
        writeOk \in BOOLEAN :
       DomainRun(force, ip, outcome, ok, body, writeOk)

SpecDomain == InitDomain /\ [][NextDomain]_vars

\* ---------------------------------------------------------------- C30
\* C30: a run for a domain that resolved an address dispatches an update for
\* that domain unless the stored address was applied for that same domain:
\* an address stored for another domain never makes it decide Unchanged.
C30_StateTiedToDomain ==
  (rs.op = "run" /\ rs.ip # NULL /\ rs.storedFor # rs.domain)
    => (rs.sent /\ rs.sentFor = rs.domain)

====
